---- MODULE Spec2Model ----
(***************************************************************************)
(* Semantic cache + RAG pipeline of the support agent.                     *)
(*                                                                         *)
(* The model follows app/agent/constructor.py (graph and stream_response), *)
(* the four nodes under app/agent/nodes, app/services/cache.py             *)
(* (SemanticCache) and the parts of ingestion and startup they rely on.    *)
(* Texts are sequences of words, so that the empty string, concatenation   *)
(* and streaming in chunks are all visible to the checker.                 *)
(***************************************************************************)
EXTENDS Integers, Sequences, FiniteSets, TLC

\* ------------------------------------------------------------------ bounds
MaxInvocations == 2
MaxDocs == 2
\* calls to a dependency that raise while the dependency is up
MaxFaults == 1

\* ------------------------------------------------------- program constants
\* settings.CACHE_SIMILARITY_THRESHOLD = 0.9, in hundredths
CACHE_SIMILARITY_THRESHOLD == 90
\* k of asimilarity_search in retrieve_documents
TOP_K == 4

\* ------------------------------------------------------------------ values
Tenants == {"tA", "tB"}
Threads == {"k1"}

\* user questions (message texts)
Questions == {<<"qa">>, <<"qb">>}
\* what the generator LLM can answer: the empty text, and a text that ends
\* in whitespace
Responses == {<< >>, <<"w1", " ">>}
\* document chunk contents
Chunks == {"c1"}
Files == {"f1", "f2"}

None == <<"None">>
NoEmb == -1
NoTenant == "none"

\* FastEmbedEmbeddings.aembed_query: a deterministic function of the text.
\* Vectors are points on a line; similarity is 1 - distance, in hundredths.
Emb(text) ==
    CASE text = <<"qa">> -> 0
      [] text = <<"qn">> -> 2
      [] text = <<"qb">> -> 3
      [] OTHER -> 12

Abs(x) == IF x < 0 THEN -x ELSE x

\* cosine distance of the index, in hundredths
Distance(e1, e2) == 5 * Abs(e1 - e2)

\* cache.py:138  similarity = 1 - distance
Similarity(e1, e2) == 100 - Distance(e1, e2)

Last(s) == s[Len(s)]

Min(a, b) == IF a < b THEN a ELSE b

HumanMessage(content) == [role |-> "human", content |-> content]
AIMessage(content) == [role |-> "ai", content |-> content]

\* a messages channel without a reducer: the update replaces the channel
add_messages_replace(left, right) == right

\* langgraph add_messages: new messages get fresh ids, so they are appended
add_messages(left, right) == left \o right

\* json.dumps({"type": ..., "content": ...})
Event(type, content) == [type |-> type, content |-> content]

StatusText == <<"Retrieving documents...">>
GenericError == <<"An error occurred while processing your request">>

VARIABLES
    runnable,     \* constructor._runnable is not None
    cacheInit,    \* semantic_cache._initialized and semantic_cache._index
    vectorStore,  \* retrieval.vector_store is not None
    store,        \* the Redis hashes under the semantic_cache: prefix
    nextKey,      \* next key the index load generates
    docs,         \* rows of the documents table
    chk,          \* checkpointed AgentState of each thread_id
    pc,           \* position of the stream_response generator
    inv,          \* arguments of the invocation in flight
    events,       \* events the generator has yielded
    tr,           \* what happened in this invocation (history variable)
    prev,         \* summary of the invocation before this one
    ninv,         \* invocations started
    redisUp,      \* the Redis server answers
    embedUp,      \* the embedding model answers
    nfaults,      \* transient failures injected so far
    model,        \* EmbeddingService._model: the instance, or NoModel
    lock,         \* EmbeddingService._lock: its holder, or NoCaller
    cpc,          \* position of each caller inside get_model
    built,        \* constructions of the model that succeeded
    ncalls,       \* calls of get_embedding_model started
    elog,         \* how each finished call ended (history variable)
    tickets,      \* tenant of the ticket behind each thread_id, once created
    rows,         \* rows of the messages table, in commit order
    req,          \* the send_message request in flight
    hist,         \* the requests that finished (history variable)
    hw,           \* contextualize_question's history window: input and result
    sess,         \* a database session: its role's RLS and app.current_tenant
    qlog,         \* the queries the session ran and their rows (history)
    owner,        \* under which app.current_tenant each row was inserted (history)
    fstatus,      \* files.status of each file
    task,         \* the ingest_pdf run in flight: position and open transaction
    ilog,         \* the ingest_pdf runs that ended (history variable)
    runs          \* graph runs in flight at once: position and channel values

\* EmbeddingService and its callers
embeddingVars == <<model, lock, cpc, built, ncalls, elog>>

\* the chat endpoints: tickets, saved messages, the request being served
chatVars == <<tickets, rows, req, hist>>

\* the rephraser's history window, taken on its own
historyVars == <<hw>>

\* invocations of the graph that overlap in time
concVars == <<runs>>

\* a session on the documents table under the tenant_isolation policy
rlsVars == <<sess, qlog, owner>>

\* the ingestion task and the files table
ingestVars == <<fstatus, task, ilog>>

\* what the calls of get_embedding_model leave alone
notEmbedding == <<runnable, cacheInit, vectorStore, store, nextKey, docs, chk,
                  pc, inv, events, tr, prev, ninv, redisUp, embedUp, nfaults,
                  chatVars, historyVars, rlsVars, ingestVars, concVars>>

\* what the chat endpoints leave alone, the agent pipeline apart
notChat == <<embeddingVars, historyVars, rlsVars, ingestVars, concVars>>

\* the agent pipeline but for the documents table
notDocs == <<runnable, cacheInit, vectorStore, store, nextKey, chk, pc, inv,
             events, tr, prev, ninv, redisUp, embedUp, nfaults>>

\* the agent pipeline, its stores and its faults
core == <<runnable, cacheInit, vectorStore, store, nextKey, docs, chk, pc, inv,
          events, tr, prev, ninv, redisUp, embedUp, nfaults>>

\* the state outside the agent pipeline
ext == <<embeddingVars, chatVars, concVars, historyVars, rlsVars, ingestVars>>

vars == <<runnable, cacheInit, vectorStore, store, nextKey, docs, chk, pc, inv,
          events, tr, prev, ninv, redisUp,
                   embedUp, nfaults, ext>>

\* threads that call get_embedding_model
Callers == {"c1", "c2"}
NoCaller == "free"
NoModel == 0

\* embeddings.py:15-16  _model = None, _lock = threading.Lock()
EmbeddingInit ==
    /\ model = NoModel
    /\ lock = NoCaller
    /\ cpc = [c \in Callers |-> "idle"]
    /\ built = 0
    /\ ncalls = 0
    /\ elog = {}

NoReq == [content |-> None, tenant_id |-> NoTenant, ticket_id |-> "none"]

\* no ticket created, no message saved, no request in flight
ChatInit ==
    /\ tickets = [k \in Threads |-> NoTenant]
    /\ rows = << >>
    /\ req = NoReq
    /\ hist = << >>

NoWindow == [messages |-> << >>, n |-> 0, out |-> << >>, taken |-> FALSE]

\* no history window taken
HistoryInit == hw = NoWindow

\* no session opened on the documents table
RLSInit ==
    /\ sess = [rls |-> FALSE, current_tenant |-> NoTenant]
    /\ qlog = {}
    /\ owner = {}

NoTask == [pc |-> "none", file_id |-> "none", tenant_id |-> NoTenant,
           chunks |-> {}, pending |-> {}, before |-> {}, ok |-> FALSE,
           failedAt |-> "none"]

\* ingestion.py:55-62  ingest_pdf is queued once the file is PROCESSING
IngestInit ==
    /\ fstatus = [f \in Files |-> "processing"]
    /\ task = NoTask
    /\ ilog = << >>


\* ---------------------------------------------------------------- AgentState
\* state.py: the channels of the graph
EmptyState ==
    [messages |-> << >>, tenant_id |-> NoTenant, ticket_id |-> "none",
     rephrased_question |-> None, query_embedding |-> NoEmb,
     documents |-> {}, is_cache_hit |-> FALSE]

\* constructor.py:77-85  initial_state of one invocation
InitialState(message, tenant_id, ticket_id) ==
    [messages |-> <<HumanMessage(message)>>, tenant_id |-> tenant_id,
     ticket_id |-> ticket_id, documents |-> {}, is_cache_hit |-> FALSE,
     rephrased_question |-> None, query_embedding |-> NoEmb]

StateKeys_keepEmbedding ==
    {"messages", "tenant_id", "ticket_id", "rephrased_question", "documents",
     "is_cache_hit"}
\* constructor.py:77-85  the channels initial_state writes at every invocation
StateKeys == {"messages", "tenant_id", "ticket_id", "rephrased_question",
              "query_embedding", "documents", "is_cache_hit"}

\* A node's (or the input's) partial update merged into the channels:
\* messages goes through the add_messages reducer, every other key present
\* in the update replaces the channel.
ApplyUpdate(st, keys, upd) ==
    [messages |-> IF "messages" \in keys
                  THEN add_messages(st.messages, upd.messages) ELSE st.messages,
     tenant_id |-> IF "tenant_id" \in keys THEN upd.tenant_id ELSE st.tenant_id,
     ticket_id |-> IF "ticket_id" \in keys THEN upd.ticket_id ELSE st.ticket_id,
     rephrased_question |-> IF "rephrased_question" \in keys
                            THEN upd.rephrased_question ELSE st.rephrased_question,
     query_embedding |-> IF "query_embedding" \in keys
                         THEN upd.query_embedding ELSE st.query_embedding,
     documents |-> IF "documents" \in keys THEN upd.documents ELSE st.documents,
     is_cache_hit |-> IF "is_cache_hit" \in keys
                      THEN upd.is_cache_hit ELSE st.is_cache_hit]

\* ------------------------------------------------------------------- history
NoLookup == [done |-> FALSE, found |-> FALSE, writer |-> NoTenant,
             tenant |-> NoTenant, response |-> None, sim |-> 0]

\* ran: the stages executed, in order; exc: the exception that escaped a
\* stage; escaped: get_runnable raised; faults: the dependencies that failed;
\* storeCalls/storeOk: calls made to the cache store and whether one succeeded;
\* lookup: what the cache query returned; cacheCalls: calls of cache_response;
\* writeRaised: a store call raised during the cache write;
\* newKeys/overwritten: keys the invocation created or rewrote; answer: the
\* assistant message appended.
FreshTrace ==
    [ran |-> << >>, exc |-> "None", escaped |-> FALSE, faults |-> {},
     storeCalls |-> 0, storeOk |-> FALSE, lookup |-> NoLookup,
     cacheCalls |-> 0, cacheRet |-> FALSE, writeRaised |-> FALSE,
     newKeys |-> {}, overwritten |-> {}, answer |-> None, genOk |-> FALSE,
     rephrased |-> None, promptDocs |-> {}, promptQuestion |-> None,
     searchText |-> None, llmCalls |-> 0, searches |-> 0]

NoPrev == [valid |-> FALSE, tenant |-> NoTenant, message |-> None,
           miss |-> FALSE, genOk |-> FALSE, answer |-> None,
           indexed |-> FALSE, quiet |-> FALSE]

NoInv == [message |-> None, tenant |-> NoTenant, thread |-> "none"]

\* requests served at the same time
Runs == {"r1", "r2"}

NoRun == [pc |-> "none", message |-> None, answer |-> None,
          channels |-> EmptyState]

\* no graph run in flight
RunsInit == runs = [r \in Runs |-> NoRun]

\* the state outside the agent pipeline before anything used it
ExtInit ==
    EmbeddingInit /\ ChatInit /\ HistoryInit /\ RLSInit /\ IngestInit /\ RunsInit

PipelineInit ==
    /\ runnable = FALSE
    /\ cacheInit = FALSE
    /\ vectorStore = FALSE
    /\ store = {}
    /\ nextKey = 1
    /\ docs = {}
    /\ chk = [k \in Threads |-> EmptyState]
    /\ pc = "idle"
    /\ inv = NoInv
    /\ events = << >>
    /\ tr = FreshTrace
    /\ prev = NoPrev
    /\ ninv = 0
    /\ nfaults = 0
    /\ redisUp = TRUE
    /\ embedUp = TRUE

\* the process after import, before the lifespan startup
Init == PipelineInit /\ ExtInit

Idle == pc = "idle"

\* ------------------------------------------------------------------ startup
\* constructor.py:51-54
set_runnable ==
    /\ Idle
    /\ ~runnable
    /\ runnable' = TRUE
    /\ UNCHANGED <<ext, cacheInit, vectorStore, store, nextKey, docs, chk, pc, inv,
                   events, tr, prev, ninv, redisUp,
                   embedUp, nfaults>>

\* startup_events.py:13-29
initialize_vector_store ==
    /\ Idle
    /\ ~vectorStore
    /\ vectorStore' = TRUE
    /\ UNCHANGED <<ext, runnable, cacheInit, store, nextKey, docs, chk, pc, inv,
                   events, tr, prev, ninv, redisUp,
                   embedUp, nfaults>>

\* cache.py:32-91  a failed ping or schema leaves _initialized False
initialize ==
    /\ Idle
    /\ ~cacheInit
    /\ \E ok \in BOOLEAN : cacheInit' = ok
    /\ prev' = [prev EXCEPT !.quiet = FALSE]
    /\ UNCHANGED <<ext, runnable, vectorStore, store, nextKey, docs, chk, pc, inv,
                   events, tr, ninv, redisUp,
                   embedUp, nfaults>>

\* cache.py:266-276  close: the index and the client are dropped, the
\* entries stay in Redis
close ==
    /\ Idle
    /\ cacheInit
    /\ cacheInit' = FALSE
    /\ prev' = [prev EXCEPT !.quiet = FALSE]
    /\ UNCHANGED <<ext, runnable, vectorStore, store, nextKey, docs, chk, pc, inv,
                   events, tr, ninv, redisUp,
                   embedUp, nfaults>>

\* ------------------------------------------------------------- cache store
\* key made by the index load (a fresh id under the index prefix)
LoadKey(n) == <<"id", n, "", 0>>

\* cache.py:217-219  semantic_cache:{tenant_id}:{hash(str(query_embedding))}
FallbackKey(tenant_id, query_embedding) == <<"fb", 0, tenant_id, query_embedding>>

\* cache.py:192-198 and 223-229  the fields of one hash; ttl tells whether the
\* key has an expiry, via which call wrote it, writer which tenant's invocation
CacheEntry(key, tenant_id, query_embedding, query_text, response, via, writer) ==
    [key |-> key, tenant_id |-> tenant_id, query_text |-> query_text,
     response |-> response, embedding |-> query_embedding, ttl |-> FALSE,
     via |-> via, writer |-> writer]

KeysOf(S) == {e.key : e \in S}

\* cache.py:201  self._index.load([data])
Load(S, n, tenant_id, query_embedding, query_text, response, writer) ==
    S \cup {CacheEntry(LoadKey(n), tenant_id, query_embedding, query_text,
                       response, "index", writer)}

\* cache.py:206 and 232  redis expire(key, CACHE_TTL_SECONDS)
Expire(S, key) == {IF e.key = key THEN [e EXCEPT !.ttl = TRUE] ELSE e : e \in S}

\* cache.py:221-230  hset replaces the fields of the key and keeps its expiry
HSet(S, tenant_id, query_embedding, query_text, response, writer) ==
    LET key == FallbackKey(tenant_id, query_embedding)
        old == {e \in S : e.key = key}
        new == CacheEntry(key, tenant_id, query_embedding, query_text, response,
                          "fallback", writer)
    IN  (S \ old) \cup {[new EXCEPT !.ttl = \E e \in old : e.ttl]}

\* cache.py:52-66  the index holds hashes whose embedding field is a float32
\* vector; the fallback stores the embedding as JSON text, which is no vector
Searchable(S) == {e \in S : e.via = "index"}

\* a lookup that drops the tenant tag filter
TenantFilter_none(S, tenant_id) == S

\* cache.py:116  Tag("tenant_id") == tenant_id
TenantFilter(S, tenant_id) == {e \in S : e.tenant_id = tenant_id}

\* cache.py:118-127  the top match (num_results=1) by vector distance
Nearest(S, query_embedding) ==
    {e \in S : \A f \in S : Distance(e.embedding, query_embedding)
                              <= Distance(f.embedding, query_embedding)}

\* cache.py:144  similarity >= threshold
IsSimilar(similarity, threshold) == similarity >= threshold

\* cache.py:129-148  what the query returned: its top entry and similarity
LookupOf(e, query_embedding, threshold) ==
    [done |-> TRUE,
     found |-> IsSimilar(Similarity(e.embedding, query_embedding), threshold),
     writer |-> e.writer, tenant |-> e.tenant_id, response |-> e.response,
     sim |-> Similarity(e.embedding, query_embedding)]

\* a lookup that queries the index whether or not the cache is initialized
get_cached_response_unguarded(init, up, canFail, S, tenant_id, query_embedding, threshold) ==
    LET results == Nearest(TenantFilter(Searchable(S), tenant_id), query_embedding)
    IN  IF results = {}
        THEN {[result |-> None, called |-> TRUE, raised |-> FALSE, used |-> 0,
               lookup |-> [NoLookup EXCEPT !.done = TRUE]]}
        ELSE {[result |-> IF IsSimilar(Similarity(e.embedding, query_embedding),
                                       threshold)
                          THEN e.response ELSE None,
               called |-> TRUE, raised |-> FALSE, used |-> 0,
               lookup |-> LookupOf(e, query_embedding, threshold)]
              : e \in results}

\* cache.py:93-160  get_cached_response: every way one call can go.
\* result is the returned text (None for no result); called tells whether the
\* store was queried, raised whether that query raised (and was swallowed).
get_cached_response(init, up, canFail, S, tenant_id, query_embedding, threshold) ==
    IF ~init
    THEN {[result |-> None, called |-> FALSE, raised |-> FALSE, used |-> 0,
           lookup |-> NoLookup]}
    ELSE LET results == Nearest(TenantFilter(Searchable(S), tenant_id),
                                query_embedding)
             failed(n) == [result |-> None, called |-> TRUE, raised |-> TRUE,
                           used |-> n, lookup |-> NoLookup]
         IN  IF ~up THEN {failed(0)}
             ELSE (IF canFail THEN {failed(1)} ELSE {})
                  \cup
                  (IF results = {}
                   THEN {[result |-> None, called |-> TRUE, raised |-> FALSE,
                          used |-> 0, lookup |-> [NoLookup EXCEPT !.done = TRUE]]}
                   ELSE {[result |-> IF IsSimilar(Similarity(e.embedding,
                                                             query_embedding),
                                                  threshold)
                                     THEN e.response ELSE None,
                          called |-> TRUE, raised |-> FALSE, used |-> 0,
                          lookup |-> LookupOf(e, query_embedding, threshold)]
                         : e \in results})

\* a fallback that lets the exception of hset propagate to the caller
FallbackStore_reraise(up, S, n, tenant_id, query_embedding, query_text, response, writer) ==
    LET key == FallbackKey(tenant_id, query_embedding)
        H == HSet(S, tenant_id, query_embedding, query_text, response, writer)
        hsetRaises(u) == [store |-> S, nextKey |-> n, ret |-> FALSE,
                          raised |-> "Exception", okCall |-> FALSE, used |-> u]
    IN  IF ~up THEN {hsetRaises(0)}
        ELSE { hsetRaises(1),
               [store |-> H, nextKey |-> n, ret |-> FALSE, raised |-> "None",
                okCall |-> TRUE, used |-> 1],
               [store |-> Expire(H, key), nextKey |-> n, ret |-> TRUE,
                raised |-> "None", okCall |-> TRUE, used |-> 0] }

\* cache.py:213-237  the fallback after the index path raised; used counts
\* the calls that raised although the server is up
FallbackStore(up, S, n, tenant_id, query_embedding, query_text, response, writer) ==
    LET key == FallbackKey(tenant_id, query_embedding)
        H == HSet(S, tenant_id, query_embedding, query_text, response, writer)
        hsetRaises(u) == [store |-> S, nextKey |-> n, ret |-> FALSE,
                          raised |-> "None", okCall |-> FALSE, used |-> u]
    IN  IF ~up THEN {hsetRaises(0)}
        ELSE { hsetRaises(1),
               \* hset succeeds, expire raises
               [store |-> H, nextKey |-> n, ret |-> FALSE, raised |-> "None",
                okCall |-> TRUE, used |-> 1],
               \* both succeed
               [store |-> Expire(H, key), nextKey |-> n, ret |-> TRUE,
                raised |-> "None", okCall |-> TRUE, used |-> 0] }

\* a cache_response without its except clauses: a raising store call
\* reaches the caller
cache_response_propagate(init, up, S, n, tenant_id, query_embedding, query_text, response, writer) ==
    IF ~init
    THEN {[store |-> S, nextKey |-> n, ret |-> FALSE, raised |-> "None",
           okCall |-> FALSE, called |-> FALSE, used |-> 0, clean |-> TRUE]}
    ELSE LET L == Load(S, n, tenant_id, query_embedding, query_text, response, writer)
             raises(u) == [store |-> S, nextKey |-> n, ret |-> FALSE,
                           raised |-> "Exception", okCall |-> FALSE,
                           called |-> TRUE, used |-> u, clean |-> FALSE]
         IN  IF ~up THEN {raises(0)}
             ELSE {[store |-> Expire(L, LoadKey(n)), nextKey |-> n + 1,
                    ret |-> TRUE, raised |-> "None", okCall |-> TRUE,
                    called |-> TRUE, used |-> 0, clean |-> TRUE],
                   raises(1)}

\* cache.py:162-237  cache_response: every way one call can go
cache_response(init, up, S, n, tenant_id, query_embedding, query_text, response, writer) ==
    IF ~init
    THEN {[store |-> S, nextKey |-> n, ret |-> FALSE, raised |-> "None",
           okCall |-> FALSE, called |-> FALSE, used |-> 0, clean |-> TRUE]}
    ELSE LET L == Load(S, n, tenant_id, query_embedding, query_text, response, writer)
             after(o, ok, u) == [store |-> o.store, nextKey |-> o.nextKey,
                                 ret |-> o.ret, raised |-> o.raised,
                                 okCall |-> o.okCall \/ ok, called |-> TRUE,
                                 used |-> o.used + u, clean |-> FALSE]
             loadRaises(u) ==
                {after(o, FALSE, u) :
                   o \in FallbackStore(up, S, n, tenant_id, query_embedding,
                                       query_text, response, writer)}
         IN  IF ~up THEN loadRaises(0)
             ELSE \* load and expire succeed
                  {[store |-> Expire(L, LoadKey(n)), nextKey |-> n + 1,
                    ret |-> TRUE, raised |-> "None", okCall |-> TRUE,
                    called |-> TRUE, used |-> 0, clean |-> TRUE]}
                  \cup \* load succeeds, expire raises
                  {after(o, TRUE, 1) :
                     o \in FallbackStore(up, L, n + 1, tenant_id, query_embedding,
                                         query_text, response, writer)}
                  \cup loadRaises(1)

\* Redis evicts a key whose time-to-live has run out
expire_key ==
    /\ Idle
    /\ \E e \in store : e.ttl /\ store' = store \ {e}
    /\ prev' = [prev EXCEPT !.quiet = FALSE]
    /\ UNCHANGED <<ext, runnable, cacheInit, vectorStore, nextKey, docs, chk, pc, inv,
                   events, tr, ninv, redisUp,
                   embedUp, nfaults>>

\* the Redis server becomes unreachable: every call to it raises
redis_down ==
    /\ Idle
    /\ redisUp
    /\ redisUp' = FALSE
    /\ prev' = [prev EXCEPT !.quiet = FALSE]
    /\ UNCHANGED <<ext, runnable, cacheInit, vectorStore, store, nextKey, docs, chk,
                   pc, inv, events, tr, ninv, embedUp, nfaults>>

\* the Redis server is reachable again
redis_up ==
    /\ Idle
    /\ ~redisUp
    /\ redisUp' = TRUE
    /\ prev' = [prev EXCEPT !.quiet = FALSE]
    /\ UNCHANGED <<ext, runnable, cacheInit, vectorStore, store, nextKey, docs, chk,
                   pc, inv, events, tr, ninv, embedUp, nfaults>>

\* the embedding model becomes unavailable: every embed call raises
embed_down ==
    /\ Idle
    /\ embedUp
    /\ embedUp' = FALSE
    /\ UNCHANGED <<ext, runnable, cacheInit, vectorStore, store, nextKey, docs, chk,
                   pc, inv, events, tr, prev, ninv, redisUp, nfaults>>

\* the embedding model is available again
embed_up ==
    /\ Idle
    /\ ~embedUp
    /\ embedUp' = TRUE
    /\ UNCHANGED <<ext, runnable, cacheInit, vectorStore, store, nextKey, docs, chk,
                   pc, inv, events, tr, prev, ninv, redisUp, nfaults>>

\* ---------------------------------------------------------- document index
Document(tenant_id, file_id, content) ==
    [tenant_id |-> tenant_id, file_id |-> file_id, content |-> content]

\* ingestion.py:110-112  delete the rows of the file
DeleteFile(D, file_id) == {d \in D : d.file_id # file_id}

\* ingestion.py:110-134  the file's rows replaced by one row per chunk, each
\* with the task's tenant_id
ReplaceChunks(D, file_id, tenant_id, chunks) ==
    DeleteFile(D, file_id) \cup {Document(tenant_id, file_id, c) : c \in chunks}

\* ingestion.py:79-165  a run either commits (old rows of the file deleted,
\* one row per chunk added, all with the task's tenant_id) or rolls back
ingest_pdf(file_id, tenant_id) ==
    /\ Idle
    /\ \E chunks \in SUBSET Chunks, ok \in BOOLEAN :
         LET replaced == ReplaceChunks(docs, file_id, tenant_id, chunks)
         IN  /\ Cardinality(replaced) <= MaxDocs
             /\ docs' = IF ok THEN replaced ELSE docs
    /\ UNCHANGED <<ext, runnable, cacheInit, vectorStore, store, nextKey, chk, pc,
                   inv, events, tr, prev, ninv, redisUp,
                   embedUp, nfaults>>

\* a similarity search without the tenant filter
DocFilter_none(D, tenant_id) == D

\* retrieval.py:44-46  filter={"tenant_id": state["tenant_id"]}
DocFilter(D, tenant_id) == {d \in D : d.tenant_id = tenant_id}

\* retrieval.py:44-46  asimilarity_search(k=4): the k nearest of the filtered
\* rows; which rows are nearest is left open
TopK(D, k) == {R \in SUBSET D : Cardinality(R) = Min(k, Cardinality(D))}

\* ----------------------------------------------------------------- pipeline
\* Python truthiness of an Optional[str]: None and "" are falsy
Truthy(text) == text # None /\ text # << >>

\* one token event per streamed chunk (a chunk is one word); the first n chunks
TokenEvents(text, n) == [i \in 1..n |-> Event("token", <<text[i]>>)]

\* an error event that carries the exception's own text
ErrorEvent_detail(exc) == Event("error", <<exc>>)

\* constructor.py:127-132  the error event, the same for every exception
ErrorEvent(exc) == Event("error", GenericError)

\* a graph whose conditional edge ignores is_cache_hit
Route_always(st) == "contextualize"

\* constructor.py:27-31  the conditional edge out of check_cache
Route(st) == IF st.is_cache_hit THEN "END" ELSE "contextualize"

\* a fallback that leaves rephrased_question unset
HandleFallback_norephrase(st) ==
    [is_cache_hit |-> FALSE, rephrased_question |-> None]

\* cache_check.py:76-91  _handle_fallback
HandleFallback(st) ==
    [is_cache_hit |-> FALSE,
     rephrased_question |-> IF Len(st.messages) > 0
                            THEN Last(st.messages).content ELSE << >>]

\* a check_cache that serves the cached response without setting the flag
CheckCacheResult_noflag(user_question, query_embedding, cached_response) ==
    IF Truthy(cached_response)
    THEN [is_cache_hit |-> FALSE, messages |-> <<AIMessage(cached_response)>>,
          rephrased_question |-> user_question,
          query_embedding |-> query_embedding, documents |-> {}]
    ELSE [is_cache_hit |-> FALSE, rephrased_question |-> user_question,
          query_embedding |-> query_embedding]

\* cache_check.py:49-66  what check_cache returns for a lookup result
CheckCacheResult(user_question, query_embedding, cached_response) ==
    IF Truthy(cached_response)
    THEN [is_cache_hit |-> TRUE, messages |-> <<AIMessage(cached_response)>>,
          rephrased_question |-> user_question,
          query_embedding |-> query_embedding, documents |-> {}]
    ELSE [is_cache_hit |-> FALSE, rephrased_question |-> user_question,
          query_embedding |-> query_embedding]

\* constructor.py:111-122  the cache hit intercepted at the node's on_chain_end
HitEvents(output) ==
    IF output.is_cache_hit /\ "messages" \in DOMAIN output
       /\ Len(output.messages) > 0
    THEN <<Event("token", output.messages[1].content)>>
    ELSE << >>

\* contextualize.py:67  except (ValueError, RuntimeError)
ContextualizeCatches(kind) == kind \in {"ValueError", "RuntimeError"}

\* generation.py:80  except RedisError
GenerateCatches(kind) == kind = "RedisError"

\* a generate node that writes the cache on a hit instead of on a miss
ShouldCache_inverted(is_cache_hit, query_embedding) ==
    is_cache_hit /\ query_embedding # NoEmb

\* generation.py:70  if not is_cache_hit and query_embedding
ShouldCache(is_cache_hit, query_embedding) ==
    ~is_cache_hit /\ query_embedding # NoEmb

\* what the rephrasing LLM may answer for a question
Rephrasings(question) == {question, <<"sq">>}

\* exceptions an LLM call raises
LLMErrors == {"ValueError", "RuntimeError", "Exception"}

\* constructor.py:57-90  stream_response up to the start of the graph
stream_response(message, tenant_id, ticket_id) ==
    /\ Idle
    /\ ninv < MaxInvocations
    /\ ninv' = ninv + 1
    /\ inv' = [message |-> message, tenant |-> tenant_id, thread |-> ticket_id]
    /\ IF ~runnable
       THEN \* get_runnable raises before the try block: nothing is yielded
            /\ pc' = "done"
            /\ events' = << >>
            /\ tr' = [FreshTrace EXCEPT !.escaped = TRUE, !.exc = "RuntimeError"]
            /\ chk' = chk
       ELSE /\ pc' = "check_cache"
            /\ events' = <<Event("status", StatusText)>>
            /\ tr' = FreshTrace
            /\ chk' = [chk EXCEPT ![ticket_id] =
                         ApplyUpdate(@, StateKeys,
                                     InitialState(message, tenant_id, ticket_id))]
    /\ UNCHANGED <<ext, runnable, cacheInit, vectorStore, store, nextKey, docs, prev,
                   redisUp,
                   embedUp, nfaults>>

\* a call to a dependency may still raise
MayFail == nfaults < MaxFaults

\* the ways a call can go: TRUE it returns, FALSE it raises
CallOutcomes == IF MayFail THEN BOOLEAN ELSE {TRUE}

\* cache_check.py:14-74  the check_cache node, its event and the routing
check_cache ==
    /\ pc = "check_cache"
    /\ LET st == chk[inv.thread]
           user_question == Last(st.messages).content
           query_embedding == Emb(user_question)
           \* cache_check.py:28-30  no messages: ValueError before any call
           valid == Len(st.messages) > 0
       IN  \E embedOk \in (IF ~valid \/ ~embedUp THEN {FALSE} ELSE CallOutcomes) :
           \E o \in IF embedOk
                    THEN get_cached_response(cacheInit, redisUp, MayFail, store,
                           st.tenant_id, query_embedding,
                           CACHE_SIMILARITY_THRESHOLD)
                    ELSE {[result |-> None, called |-> FALSE, raised |-> FALSE,
                           used |-> IF valid /\ embedUp THEN 1 ELSE 0,
                           lookup |-> NoLookup]} :
             LET output == IF embedOk
                           THEN CheckCacheResult(user_question, query_embedding,
                                                 o.result)
                           ELSE HandleFallback(st)
                 new == ApplyUpdate(st, DOMAIN output, output)
             IN  /\ chk' = [chk EXCEPT ![inv.thread] = new]
                 /\ events' = events \o HitEvents(output)
                 /\ nfaults' = nfaults + o.used
                 /\ pc' = IF Route(new) = "END" THEN "finally" ELSE Route(new)
                 /\ tr' = [tr EXCEPT
                      !.ran = Append(@, "check_cache"),
                      !.faults = @ \cup (IF embedOk THEN {}
                                         ELSE IF valid THEN {"embed"}
                                         ELSE {"messages"})
                                   \cup (IF o.raised THEN {"store"} ELSE {}),
                      !.storeCalls = @ + (IF o.called THEN 1 ELSE 0),
                      !.storeOk = @ \/ (o.called /\ ~o.raised),
                      !.lookup = o.lookup,
                      !.answer = IF output.is_cache_hit
                                 THEN output.messages[1].content ELSE @]
    /\ UNCHANGED <<ext, runnable, cacheInit, vectorStore, store, nextKey, docs, inv,
                   prev, ninv, redisUp,
                   embedUp>>

\* contextualize.py:41-70  the contextualize node; the rephrasing LLM runs
\* under astream_events, so its chunks arrive as on_chat_model_stream events
contextualize_question ==
    /\ pc = "contextualize"
    /\ LET st == chk[inv.thread]
           user_question == Last(st.messages).content
           fallback == [chk EXCEPT ![inv.thread] =
                          ApplyUpdate(@, {"rephrased_question"},
                                      [rephrased_question |-> user_question])]
           ran == [tr EXCEPT !.ran = Append(@, "contextualize")]
       IN  IF Len(st.messages) = 0
           THEN \* contextualize.py:52  messages[-1] of an empty list: IndexError
                /\ chk' = chk
                /\ events' = events
                /\ pc' = "except"
                /\ nfaults' = nfaults
                /\ tr' = [ran EXCEPT !.faults = @ \cup {"messages"},
                                     !.exc = "IndexError"]
           ELSE IF Len(st.messages) > 1
           THEN \E r \in Rephrasings(user_question) :
                  \/ \* the LLM answers
                     /\ chk' = [chk EXCEPT ![inv.thread] =
                                  ApplyUpdate(@, {"rephrased_question"},
                                              [rephrased_question |-> r])]
                     /\ events' = events \o TokenEvents(r, Len(r))
                     /\ pc' = "retrieve"
                     /\ nfaults' = nfaults
                     /\ tr' = [ran EXCEPT !.llmCalls = @ + 1, !.rephrased = r]
                  \/ \* the LLM raises after n chunks
                     /\ MayFail
                     /\ \E kind \in LLMErrors, n \in 0..Len(r) :
                          /\ events' = events \o TokenEvents(r, n)
                          /\ nfaults' = nfaults + 1
                          /\ IF ContextualizeCatches(kind)
                             THEN /\ chk' = fallback
                                  /\ pc' = "retrieve"
                                  /\ tr' = [ran EXCEPT
                                       !.llmCalls = @ + 1,
                                       !.faults = @ \cup {"rephrase"},
                                       !.rephrased = user_question]
                             ELSE /\ chk' = chk
                                  /\ pc' = "except"
                                  /\ tr' = [ran EXCEPT
                                       !.llmCalls = @ + 1,
                                       !.faults = @ \cup {"rephrase"},
                                       !.exc = kind]
           ELSE /\ chk' = fallback
                /\ events' = events
                /\ pc' = "retrieve"
                /\ nfaults' = nfaults
                /\ tr' = [ran EXCEPT !.rephrased = user_question]
    /\ UNCHANGED <<ext, runnable, cacheInit, vectorStore, store, nextKey, docs, inv,
                   prev, ninv, redisUp,
                   embedUp>>

\* retrieval.py:21-52  the retrieve node
retrieve_documents ==
    /\ pc = "retrieve"
    /\ LET st == chk[inv.thread]
           user_query == Last(st.messages).content
           ran == [tr EXCEPT !.ran = Append(@, "retrieve")]
       IN  IF ~vectorStore
           THEN /\ chk' = chk
                /\ pc' = "except"
                /\ nfaults' = nfaults
                /\ tr' = [ran EXCEPT !.faults = @ \cup {"vector"},
                                     !.exc = "RuntimeError"]
           ELSE IF ~embedUp
           THEN \* asimilarity_search embeds the query first: that call raises
                /\ chk' = chk
                /\ pc' = "except"
                /\ nfaults' = nfaults
                /\ tr' = [ran EXCEPT !.searches = @ + 1,
                                     !.searchText = user_query,
                                     !.faults = @ \cup {"embed"},
                                     !.exc = "Exception"]
           ELSE \/ \E retrieved_docs \in TopK(DocFilter(docs, st.tenant_id), TOP_K) :
                     /\ chk' = [chk EXCEPT ![inv.thread] =
                                  ApplyUpdate(@, {"documents"},
                                              [documents |-> retrieved_docs])]
                     /\ pc' = "generate"
                     /\ nfaults' = nfaults
                     /\ tr' = [ran EXCEPT !.searches = @ + 1,
                                          !.searchText = user_query]
                \/ \* the search raises
                   /\ MayFail
                   /\ chk' = chk
                   /\ pc' = "except"
                   /\ nfaults' = nfaults + 1
                   /\ tr' = [ran EXCEPT !.searches = @ + 1,
                                        !.searchText = user_query,
                                        !.faults = @ \cup {"vector"},
                                        !.exc = "Exception"]
    /\ UNCHANGED <<ext, runnable, cacheInit, vectorStore, store, nextKey, docs, inv,
                   events, prev, ninv, redisUp,
                   embedUp>>

\* generation.py:35-84  the generate node: the LLM call and the cache write
generate_response ==
    /\ pc = "generate"
    /\ LET st == chk[inv.thread]
           user_question == Last(st.messages).content
           generation_question == IF Truthy(st.rephrased_question)
                                  THEN st.rephrased_question ELSE user_question
           prompted == [tr EXCEPT !.ran = Append(@, "generate"),
                                  !.llmCalls = @ + 1,
                                  !.promptDocs = st.documents,
                                  !.promptQuestion = generation_question]
       IN  \E response_content \in Responses :
             \/ \* the LLM raises after n chunks
                /\ MayFail
                /\ \E n \in 0..Len(response_content) :
                     /\ events' = events \o TokenEvents(response_content, n)
                     /\ pc' = "except"
                     /\ nfaults' = nfaults + 1
                     /\ tr' = [prompted EXCEPT !.faults = @ \cup {"generate"},
                                               !.exc = "Exception"]
                     /\ UNCHANGED <<ext, chk, store, nextKey>>
             \/ \* the LLM answers
                \E o \in IF ShouldCache(st.is_cache_hit, st.query_embedding)
                         THEN cache_response(cacheInit, redisUp, store, nextKey,
                                st.tenant_id, st.query_embedding, user_question,
                                response_content, inv.tenant)
                         ELSE {[store |-> store, nextKey |-> nextKey,
                                ret |-> FALSE, raised |-> "None",
                                okCall |-> FALSE, called |-> FALSE, used |-> 0,
                                clean |-> TRUE]} :
                  LET cached == ShouldCache(st.is_cache_hit, st.query_embedding)
                      wrote == [prompted EXCEPT
                        !.cacheCalls = @ + (IF cached THEN 1 ELSE 0),
                        !.cacheRet = o.ret,
                        !.writeRaised = ~o.clean,
                        !.storeCalls = @ + (IF o.called THEN 1 ELSE 0),
                        !.storeOk = @ \/ o.okCall,
                        !.faults = @ \cup (IF o.called /\ ~o.ret THEN {"store"} ELSE {}),
                        !.newKeys = KeysOf(o.store) \ KeysOf(store),
                        !.overwritten = {e.key : e \in store \ o.store}]
                  IN  /\ nfaults + o.used <= MaxFaults
                      /\ nfaults' = nfaults + o.used
                      /\ events' = events
                                   \o TokenEvents(response_content, Len(response_content))
                      /\ store' = o.store
                      /\ nextKey' = o.nextKey
                      /\ IF o.raised = "None" \/ GenerateCatches(o.raised)
                         THEN /\ chk' = [chk EXCEPT ![inv.thread] =
                                  ApplyUpdate(@, {"messages"},
                                    [messages |-> <<AIMessage(response_content)>>])]
                              /\ pc' = "finally"
                              /\ tr' = [wrote EXCEPT !.genOk = TRUE,
                                                     !.answer = response_content]
                         ELSE /\ chk' = chk
                              /\ pc' = "except"
                              /\ tr' = [wrote EXCEPT !.exc = o.raised]
    /\ UNCHANGED <<ext, runnable, cacheInit, vectorStore, docs, inv, prev, ninv,
                   redisUp,
                   embedUp>>

\* constructor.py:124-132  except Exception: one error event
except ==
    /\ pc = "except"
    /\ events' = Append(events, ErrorEvent(tr.exc))
    /\ pc' = "finally"
    /\ UNCHANGED <<ext, runnable, cacheInit, vectorStore, store, nextKey, docs, chk,
                   inv, tr, prev, ninv, redisUp,
                   embedUp, nfaults>>

\* constructor.py:133-135  finally: the end event
finally ==
    /\ pc = "finally"
    /\ events' = Append(events, Event("end", << >>))
    /\ pc' = "done"
    /\ UNCHANGED <<ext, runnable, cacheInit, vectorStore, store, nextKey, docs, chk,
                   inv, tr, prev, ninv, redisUp,
                   embedUp, nfaults>>

\* chat.py:100  the consumer's async for ends: the generator is exhausted (or
\* has raised) and a later request starts a new one
close_stream ==
    /\ pc = "done"
    /\ pc' = "idle"
    /\ events' = << >>
    /\ tr' = FreshTrace
    /\ inv' = NoInv
    /\ prev' = [valid |-> ~tr.escaped, tenant |-> inv.tenant,
                message |-> inv.message,
                miss |-> Len(tr.ran) > 1, genOk |-> tr.genOk,
                answer |-> tr.answer,
                indexed |-> \E k \in tr.newKeys : k[1] = "id",
                quiet |-> TRUE]
    /\ UNCHANGED <<runnable, cacheInit, vectorStore, store, nextKey, docs, chk,
                   ninv, redisUp,
                   embedUp, nfaults>>

\* the stream consumed by a caller that keeps nothing
stream_closed ==
    /\ close_stream
    /\ UNCHANGED ext

\* the steps of one invocation
Pipeline ==
    \/ \E m \in Questions, t \in Tenants, k \in Threads : stream_response(m, t, k)
    \/ check_cache
    \/ contextualize_question
    \/ retrieve_documents
    \/ generate_response
    \/ except
    \/ finally
    \/ stream_closed

\* The pipeline over the semantic cache; the document index stays empty.
Next ==
    \/ set_runnable
    \/ initialize_vector_store
    \/ initialize
    \/ expire_key
    \/ redis_down
    \/ redis_up
    \/ Pipeline

Spec == Init /\ [][Next]_vars

\* The pipeline over the document index; the semantic cache is never
\* initialized, so every invocation takes the retrieval path.
NextIndex ==
    \/ set_runnable
    \/ initialize_vector_store
    \/ \E f \in Files, t \in Tenants : ingest_pdf(f, t)
    \/ Pipeline

SpecIndex == Init /\ [][NextIndex]_vars

\* The pipeline while the embedding model comes and goes; the cache store
\* stays reachable and the document index empty.
NextEmbed ==
    \/ set_runnable
    \/ initialize_vector_store
    \/ initialize
    \/ embed_down
    \/ embed_up
    \/ Pipeline

SpecEmbed == Init /\ [][NextEmbed]_vars

\* The pipeline while the semantic cache is initialized, fails to
\* initialize, or is closed and initialized again; the store stays reachable.
NextClose ==
    \/ set_runnable
    \/ initialize_vector_store
    \/ initialize
    \/ close
    \/ Pipeline

SpecClose == Init /\ [][NextClose]_vars

\* ------------------------------------------------------------- warm start
\* questions answered before the first invocation observed: qn is a
\* paraphrase of qa whose similarity to it is exactly the threshold
WarmQuestions == {<<"qa">>, <<"qn">>, <<"qb">>}

\* stores one earlier indexed write can have left
WarmIndexed ==
    {Expire(Load({}, 1, t, Emb(q), q, r, t), LoadKey(1)) :
       t \in Tenants, q \in WarmQuestions, r \in Responses}

\* stores one earlier fallback write can have left
WarmFallback ==
    {Expire(HSet({}, t, Emb(<<"qa">>), <<"qa">>, r, t),
            FallbackKey(t, Emb(<<"qa">>))) :
       t \in Tenants, r \in Responses}

WarmStores ==
    {I \cup F : I \in WarmIndexed \cup {{}}, F \in WarmFallback \cup {{}}}

\* the messages channel check_cache can be handed: none, a first question,
\* a follow-up question
WarmMessages ==
    {<< >>,
     <<HumanMessage(<<"qa">>)>>,
     <<HumanMessage(<<"qa">>), AIMessage(<<"w1", " ">>), HumanMessage(<<"qa">>)>>}

\* check_cache about to run on a drawn state over a drawn store
InitWarm ==
    /\ runnable = TRUE
    /\ vectorStore = TRUE
    /\ cacheInit \in BOOLEAN
    /\ store \in WarmStores
    /\ nextKey = 2
    /\ docs = {}
    /\ \E t \in Tenants, m \in WarmMessages :
         /\ chk = [k \in Threads |->
                     [EmptyState EXCEPT !.messages = m, !.tenant_id = t,
                                        !.ticket_id = k]]
         /\ inv = [message |-> IF m = << >> THEN None ELSE Last(m).content,
                   tenant |-> t, thread |-> "k1"]
    /\ pc = "check_cache"
    /\ events = <<Event("status", StatusText)>>
    /\ tr = FreshTrace
    /\ prev = NoPrev
    /\ ninv = 1
    /\ nfaults = 0
    /\ redisUp = TRUE
    /\ embedUp = TRUE
    /\ ExtInit

\* One run of the graph from the drawn state to the end of its stream.
NextWarm ==
    \/ check_cache
    \/ contextualize_question
    \/ retrieve_documents
    \/ generate_response
    \/ except
    \/ finally

SpecWarm == InitWarm /\ [][NextWarm]_vars

\* ------------------------------------------------------- EmbeddingService
\* calls of get_embedding_model the callers make between them
MaxCalls == 3

\* embeddings.py:37-38  a caller enters get_embedding_model
get_embedding_model(c) ==
    /\ cpc[c] = "idle"
    /\ ncalls < MaxCalls
    /\ ncalls' = ncalls + 1
    /\ cpc' = [cpc EXCEPT ![c] = "first_check"]
    /\ UNCHANGED <<notEmbedding, model, lock, built, elog>>

\* embeddings.py:24  if cls._model is None, read without the lock
first_check(c) ==
    /\ cpc[c] = "first_check"
    /\ cpc' = [cpc EXCEPT ![c] = IF model = NoModel THEN "acquire" ELSE "return"]
    /\ UNCHANGED <<notEmbedding, model, lock, built, ncalls, elog>>

\* embeddings.py:25  with cls._lock: blocks while another caller holds it
acquire(c) ==
    /\ cpc[c] = "acquire"
    /\ lock = NoCaller
    /\ lock' = c
    /\ cpc' = [cpc EXCEPT ![c] = "second_check"]
    /\ UNCHANGED <<notEmbedding, model, built, ncalls, elog>>

SecondCheck_skipped(m) == TRUE
\* embeddings.py:26  the check repeated under the lock
SecondCheck(m) == m = NoModel

\* embeddings.py:26  under the lock: construct, or leave the with block
second_check(c) ==
    /\ cpc[c] = "second_check"
    /\ IF SecondCheck(model)
       THEN /\ cpc' = [cpc EXCEPT ![c] = "construct"]
            /\ lock' = lock
       ELSE /\ cpc' = [cpc EXCEPT ![c] = "return"]
            /\ lock' = NoCaller
    /\ UNCHANGED <<notEmbedding, model, built, ncalls, elog>>

\* embeddings.py:28-33  FastEmbedEmbeddings(...) returns a new instance or
\* raises; the exception is re-raised and the with block releases the lock
construct(c) ==
    /\ cpc[c] = "construct"
    /\ \E ok \in BOOLEAN :
         IF ok
         THEN /\ model' = built + 1
              /\ built' = built + 1
              /\ cpc' = [cpc EXCEPT ![c] = "return"]
              /\ elog' = elog
         ELSE /\ model' = model
              /\ built' = built
              /\ cpc' = [cpc EXCEPT ![c] = "idle"]
              /\ elog' = elog \cup {[caller |-> c, kind |-> "raised",
                                     model |-> model, lock |-> NoCaller]}
    /\ lock' = NoCaller
    /\ UNCHANGED <<notEmbedding, ncalls>>

\* embeddings.py:34  return cls._model
return_model(c) ==
    /\ cpc[c] = "return"
    /\ cpc' = [cpc EXCEPT ![c] = "idle"]
    /\ elog' = elog \cup {[caller |-> c, kind |-> "returned",
                           model |-> model, lock |-> lock]}
    /\ UNCHANGED <<notEmbedding, model, lock, built, ncalls>>

\* Threads calling get_embedding_model concurrently, one statement at a time.
NextEmbedding ==
    \/ \E c \in Callers : get_embedding_model(c)
    \/ \E c \in Callers : first_check(c)
    \/ \E c \in Callers : acquire(c)
    \/ \E c \in Callers : second_check(c)
    \/ \E c \in Callers : construct(c)
    \/ \E c \in Callers : return_model(c)

SpecEmbedding == Init /\ [][NextEmbedding]_vars

\* ------------------------------------------------------------ chat endpoints
\* chat.py:25-46 and deps.py:102-146  the sessions a client can present: a
\* token is issued by init_chat for the ticket it created and carries that
\* ticket's id and tenant; get_chat_session takes both from the signed token
ChatSessions_unbound(tk) ==
    {[tenant_id |-> t, ticket_id |-> k] : t \in Tenants,
                                          k \in {x \in DOMAIN tk : tk[x] # NoTenant}}
\* chat.py:43-45, deps.py:125-126, 140
ChatSessions(tk) ==
    {[tenant_id |-> tk[k], ticket_id |-> k] : k \in {x \in DOMAIN tk : tk[x] # NoTenant}}

\* message.py:19-33  a row of the messages table
MessageRow(tenant_id, ticket_id, sender_type, content) ==
    [tenant_id |-> tenant_id, ticket_id |-> ticket_id,
     sender_type |-> sender_type, content |-> content]

\* chat.py:100-109  full_response: the contents of the token events, joined
RECURSIVE FullResponse(_)
FullResponse(ev) ==
    IF ev = << >> THEN << >>
    ELSE LET chunk_data == Head(ev)
         IN  (IF chunk_data.type = "token" THEN chunk_data.content ELSE << >>)
             \o FullResponse(Tail(ev))

Whitespace == {" "}

\* chat.py:118  str.strip(): leading and trailing whitespace removed
Strip(text) ==
    LET keep == {i \in 1..Len(text) : text[i] \notin Whitespace}
    IN  IF keep = {} THEN << >>
        ELSE SubSeq(text, CHOOSE i \in keep : \A j \in keep : i <= j,
                          CHOOSE i \in keep : \A j \in keep : i >= j)

SavesAI_always(full_response) == TRUE
\* chat.py:112  if full_response:
SavesAI(full_response) == full_response # << >>

\* chat.py:25-46  init_chat: a new ticket for the tenant, and its token
init_chat(tenant_id) ==
    /\ \E k \in Threads :
         /\ tickets[k] = NoTenant
         /\ tickets' = [tickets EXCEPT ![k] = tenant_id]
    /\ UNCHANGED <<runnable, cacheInit, vectorStore, store, nextKey, docs, chk,
                   pc, inv, events, tr, prev, ninv, redisUp, embedUp, nfaults,
                   notChat, rows, req, hist>>

\* chat.py:69-88, 123  send_message up to the StreamingResponse: the user
\* message is added and committed, the wrapper generator is not started yet
send_message(session, content) ==
    /\ Idle
    /\ req = NoReq
    /\ ninv < MaxInvocations
    /\ session \in ChatSessions(tickets)
    /\ rows' = Append(rows, MessageRow(session.tenant_id, session.ticket_id,
                                       "user", content))
    /\ req' = [content |-> content, tenant_id |-> session.tenant_id,
               ticket_id |-> session.ticket_id]
    /\ UNCHANGED <<runnable, cacheInit, vectorStore, store, nextKey, docs, chk,
                   pc, inv, events, tr, prev, ninv, redisUp, embedUp, nfaults,
                   notChat, tickets, hist>>

\* chat.py:91-98  response_wrapper starts the agent's generator
agent_stream_response ==
    /\ req # NoReq
    /\ stream_response(req.content, req.tenant_id, req.ticket_id)

\* chat.py:100-121  the agent's stream is over: the AI message is saved in a
\* new session when full_response is not empty.  When the generator raised,
\* the exception leaves response_wrapper before anything is saved (nothing
\* was streamed then).
response_wrapper ==
    /\ req # NoReq
    /\ close_stream
    /\ LET full_response == FullResponse(events)
           saved == ~tr.escaped /\ SavesAI(full_response)
       IN  /\ rows' = IF saved
                      THEN Append(rows, MessageRow(req.tenant_id, req.ticket_id,
                                                   "ai", Strip(full_response)))
                      ELSE rows
           /\ hist' = Append(hist,
                        [content |-> req.content, tenant_id |-> req.tenant_id,
                         ticket_id |-> req.ticket_id, events |-> events,
                         escaped |-> tr.escaped, answer |-> tr.answer,
                         persisted |-> chk[req.ticket_id].tenant_id,
                         saved |-> SubSeq(rows', Len(rows) + 1, Len(rows'))])
    /\ req' = NoReq
    /\ UNCHANGED <<notChat, tickets>>

\* Requests through the chat endpoints, one at a time, over the semantic
\* cache; the document index stays empty.
NextChat ==
    \/ set_runnable
    \/ initialize_vector_store
    \/ initialize
    \/ \E t \in Tenants : init_chat(t)
    \/ \E t \in Tenants, k \in Threads, m \in Questions :
         send_message([tenant_id |-> t, ticket_id |-> k], m)
    \/ agent_stream_response
    \/ check_cache
    \/ contextualize_question
    \/ retrieve_documents
    \/ generate_response
    \/ except
    \/ finally
    \/ response_wrapper

SpecChat == Init /\ [][NextChat]_vars

\* ---------------------------------------------------------- history window
\* longest messages list drawn, and largest MAX_CHAT_HISTORY drawn
MaxLen == 4
MaxHistory == 3

\* Python's seq[:-1]
AllButLast(seq) == IF seq = << >> THEN << >> ELSE SubSeq(seq, 1, Len(seq) - 1)

\* Python's seq[start:] : a negative start counts from the end, and both
\* signs are clamped to the sequence
SliceFrom(seq, start) ==
    LET first == IF start < 0
                 THEN (IF Len(seq) + start < 0 THEN 0 ELSE Len(seq) + start)
                 ELSE Min(start, Len(seq))
    IN  SubSeq(seq, first + 1, Len(seq))

\* contextualize.py:58  state["messages"][:-1][-settings.MAX_CHAT_HISTORY :]
HistoryWindow(messages, n) == SliceFrom(AllButLast(messages), -n)

\* the messages lists and settings the window is taken of
HistoryInputs ==
    {[messages |-> m, n |-> n, out |-> << >>, taken |-> FALSE] :
       m \in UNION {[1..l -> {HumanMessage(<<"qa">>), AIMessage(<<"w1", " ">>)}] :
                      l \in 1..MaxLen},
       n \in 0..MaxHistory}

\* contextualize.py:55-61  the chat history handed to the rephraser; with a
\* single message the rephraser is not called
chat_history_messages ==
    /\ ~hw.taken
    /\ hw.messages # << >>
    /\ hw' = [hw EXCEPT !.taken = TRUE,
                        !.out = IF Len(hw.messages) > 1
                                THEN HistoryWindow(hw.messages, hw.n)
                                ELSE << >>]
    /\ UNCHANGED <<core, embeddingVars, chatVars, concVars, rlsVars, ingestVars>>

InitHistory ==
    /\ PipelineInit
    /\ EmbeddingInit
    /\ ChatInit
    /\ RLSInit
    /\ IngestInit
    /\ RunsInit
    /\ hw \in HistoryInputs

NextHistory == chat_history_messages

SpecHistory == InitHistory /\ [][NextHistory]_vars

\* ------------------------------------------------------- row-level security
\* queries one session runs
MaxQueries == 2

\* no code path issues SET ROLE: current_setting('role', true) is 'none'
SessionRole == "none"

\* a policy that lets every row through
Policy_open(row, current_tenant, role) == TRUE
\* d0a036ac143c:44-48, 68-72  the permissive policies on documents, OR-ed:
\* tenant_isolation USING (tenant_id = current_setting('app.current_tenant'))
\* and service_role_access USING (current_setting('role', true) = 'service_role')
Policy(row, current_tenant, role) ==
    \/ row.tenant_id = current_tenant
    \/ role = "service_role"

\* d0a036ac143c:47  current_setting without missing_ok, cast to uuid: the
\* statement fails while app.current_tenant is not set
PolicyRaises(current_tenant) == current_tenant = NoTenant

\* the rows a statement of the session can see (USING)
Visible(D, se) ==
    IF se.rls THEN {d \in D : Policy(d, se.current_tenant, SessionRole)} ELSE D

\* db.py:92-95, test_rls.py:50-53  SELECT set_config('app.current_tenant', t, true)
set_config(tenant_id) ==
    /\ sess.current_tenant # tenant_id
    /\ sess' = [sess EXCEPT !.current_tenant = tenant_id]
    /\ UNCHANGED <<core, embeddingVars, chatVars, concVars, historyVars, ingestVars,
                   qlog, owner>>

\* test_rls.py:78-85  INSERT INTO documents: FOR ALL without WITH CHECK
\* applies the USING expression to the new row
insert_document(tenant_id, file_id, content) ==
    LET row == Document(tenant_id, file_id, content)
        allowed == IF sess.rls
                   THEN /\ ~PolicyRaises(sess.current_tenant)
                        /\ Policy(row, sess.current_tenant, SessionRole)
                   ELSE TRUE
    IN  /\ Cardinality(docs \cup {row}) <= MaxDocs
        /\ row \notin docs
        /\ docs' = IF allowed THEN docs \cup {row} ELSE docs
        /\ owner' = IF allowed
                    THEN owner \cup {[row |-> row, under |-> sess.current_tenant]}
                    ELSE owner
        /\ UNCHANGED <<notDocs, embeddingVars, chatVars, concVars, historyVars,
                       ingestVars, sess, qlog>>

\* test_rls.py:96-99, 110-113  SELECT ... FROM documents
select_documents ==
    /\ Cardinality(qlog) < MaxQueries
    /\ LET failed == sess.rls /\ PolicyRaises(sess.current_tenant)
       IN  qlog' = qlog \cup
                     {[current_tenant |-> sess.current_tenant, rls |-> sess.rls,
                       table |-> docs, failed |-> failed,
                       returned |-> IF failed THEN {} ELSE Visible(docs, sess)]}
    /\ UNCHANGED <<core, embeddingVars, chatVars, concVars, historyVars, ingestVars,
                   sess, owner>>

\* db.py:93  is_local = true: the setting ends with the transaction
end_transaction ==
    /\ sess.current_tenant # NoTenant
    /\ sess' = [sess EXCEPT !.current_tenant = NoTenant]
    /\ UNCHANGED <<core, embeddingVars, chatVars, concVars, historyVars, ingestVars,
                   qlog, owner>>

\* a connection whose role is, or is not, subject to row-level security
InitRLS ==
    /\ PipelineInit
    /\ EmbeddingInit
    /\ ChatInit
    /\ HistoryInit
    /\ IngestInit
    /\ RunsInit
    /\ sess \in [rls : BOOLEAN, current_tenant : {NoTenant}]
    /\ qlog = {}
    /\ owner = {}

\* One session inserting and reading documents under changing tenants.
NextRLS ==
    \/ \E t \in Tenants : set_config(t)
    \/ \E t \in Tenants, f \in Files, c \in Chunks : insert_document(t, f, c)
    \/ select_documents
    \/ end_transaction

SpecRLS == InitRLS /\ [][NextRLS]_vars

\* ---------------------------------------------------------------- ingestion
\* runs of ingest_pdf
MaxRuns == 2

\* the handler without its rollback: the open transaction is committed
RolledBack_kept(committed, pending) == pending
\* ingestion.py:27  db.rollback(): the statements of the open transaction
\* are undone
RolledBack(committed, pending) == committed

\* ingestion.py:89-92  the task starts and opens its session; the session's
\* transaction sees the committed rows
ingest_open(file_id, tenant_id) ==
    /\ task.pc = "none"
    /\ Len(ilog) < MaxRuns
    /\ task' = [NoTask EXCEPT !.pc = "extract", !.file_id = file_id,
                              !.tenant_id = tenant_id, !.pending = docs,
                              !.before = docs]
    /\ UNCHANGED <<core, embeddingVars, chatVars, concVars, historyVars, rlsVars,
                   fstatus, ilog>>

\* ingestion.py:95-109  download, text extraction, splitting, embedding:
\* any of them can raise; nothing was written yet
ingest_extract ==
    /\ task.pc = "extract"
    /\ \/ \E chunks \in SUBSET Chunks :
            task' = [task EXCEPT !.pc = "replace", !.chunks = chunks]
       \/ task' = [task EXCEPT !.pc = "failed", !.failedAt = "extract"]
    /\ UNCHANGED <<core, embeddingVars, chatVars, concVars, historyVars, rlsVars,
                   fstatus, ilog>>

\* ingestion.py:110-136  inside the transaction: the file's rows deleted, the
\* new rows added, the status set to INDEXED; the uuid conversion raises
\* after the delete
ingest_replace ==
    /\ task.pc = "replace"
    /\ \/ /\ Cardinality(ReplaceChunks(task.pending, task.file_id,
                                       task.tenant_id, task.chunks)) <= MaxDocs
          /\ task' = [task EXCEPT
                        !.pc = "commit",
                        !.pending = ReplaceChunks(@, task.file_id,
                                                  task.tenant_id, task.chunks)]
       \/ task' = [task EXCEPT !.pc = "failed", !.failedAt = "replace",
                               !.pending = DeleteFile(@, task.file_id)]
    /\ UNCHANGED <<core, embeddingVars, chatVars, concVars, historyVars, rlsVars,
                   fstatus, ilog>>

\* ingestion.py:138  db.commit(): rows and status become durable together,
\* or the commit raises
ingest_commit ==
    /\ task.pc = "commit"
    /\ \/ /\ docs' = task.pending
          /\ fstatus' = [fstatus EXCEPT ![task.file_id] = "indexed"]
          /\ task' = [task EXCEPT !.pc = "close", !.ok = TRUE]
       \/ /\ task' = [task EXCEPT !.pc = "failed", !.failedAt = "commit"]
          /\ UNCHANGED <<docs, fstatus>>
    /\ UNCHANGED <<notDocs, embeddingVars, chatVars, concVars, historyVars, rlsVars, ilog>>

\* ingestion.py:25-29, 141-161  every except clause: rollback, status FAILED,
\* commit, re-raise
handle_ingestion_failure ==
    /\ task.pc = "failed"
    /\ docs' = RolledBack(docs, task.pending)
    /\ fstatus' = [fstatus EXCEPT ![task.file_id] = "failed"]
    /\ task' = [task EXCEPT !.pc = "close", !.pending = docs']
    /\ UNCHANGED <<notDocs, embeddingVars, chatVars, concVars, historyVars, rlsVars, ilog>>

\* ingestion.py:162-165  finally: the session is closed, the task ends
ingest_close ==
    /\ task.pc = "close"
    /\ ilog' = Append(ilog, [file_id |-> task.file_id,
                             tenant_id |-> task.tenant_id,
                             chunks |-> task.chunks, ok |-> task.ok,
                             failedAt |-> task.failedAt,
                             before |-> task.before, after |-> docs,
                             status |-> fstatus[task.file_id]])
    /\ task' = NoTask
    /\ UNCHANGED <<core, embeddingVars, chatVars, concVars, historyVars, rlsVars, fstatus>>

\* Runs of ingest_pdf, one after the other: first runs, retries after a
\* failure, re-ingestions of an indexed file.
NextIngest ==
    \/ \E f \in Files, t \in Tenants : ingest_open(f, t)
    \/ ingest_extract
    \/ ingest_replace
    \/ ingest_commit
    \/ handle_ingestion_failure
    \/ ingest_close

SpecIngest == Init /\ [][NextIngest]_vars

\* ------------------------------------------------- overlapping invocations
\* send_message takes no lock per ticket, so two requests with the same
\* token run the graph on one thread_id at once.  Each run reads the
\* thread's latest checkpoint when it starts, keeps its own channel values,
\* and after the input and after every node saves them as the thread's
\* latest checkpoint.

\* what the nodes of the miss path write, the cache being uninitialized
NodeOutput(node, st, answer) ==
    LET user_question == Last(st.messages).content
    IN  CASE node = "check_cache" ->
               CheckCacheResult(user_question, Emb(user_question), None)
          [] node = "contextualize" ->
               [rephrased_question |-> user_question]
          [] node = "retrieve" -> [documents |-> {}]
          [] node = "generate" -> [messages |-> <<AIMessage(answer)>>]

\* the node after each node of the miss path
NextNode(node) ==
    CASE node = "check_cache" -> "contextualize"
      [] node = "contextualize" -> "retrieve"
      [] node = "retrieve" -> "generate"
      [] node = "generate" -> "done"

\* constructor.py:72-90  astream_events starts: the latest checkpoint of the
\* thread is loaded into the run's channels
run_load(r, message, ticket_id) ==
    /\ runnable
    /\ runs[r].pc = "none"
    /\ runs' = [runs EXCEPT ![r] = [pc |-> "input", message |-> message,
                                    answer |-> None,
                                    channels |-> chk[ticket_id]]]
    /\ UNCHANGED <<core, embeddingVars, chatVars, historyVars, rlsVars,
                   ingestVars>>

\* constructor.py:77-90  initial_state is applied to the run's channels and
\* the input checkpoint is saved
run_input(r, tenant_id, ticket_id) ==
    /\ runs[r].pc = "input"
    /\ LET st == ApplyUpdate(runs[r].channels, StateKeys,
                             InitialState(runs[r].message, tenant_id, ticket_id))
       IN  /\ runs' = [runs EXCEPT ![r].pc = "check_cache", ![r].channels = st]
           /\ chk' = [chk EXCEPT ![ticket_id] = st]
    /\ UNCHANGED <<runnable, cacheInit, vectorStore, store, nextKey, docs, pc,
                   inv, events, tr, prev, ninv, redisUp, embedUp, nfaults,
                   embeddingVars, chatVars, historyVars, rlsVars, ingestVars>>

\* constructor.py:16-35, 88-90  one node runs on the run's channels, its
\* output is merged into them and the checkpoint is saved
run_node(r, ticket_id) ==
    /\ runs[r].pc \in {"check_cache", "contextualize", "retrieve", "generate"}
    /\ \E answer \in Responses \ {<< >>} :
         LET out == NodeOutput(runs[r].pc, runs[r].channels, answer)
             st == ApplyUpdate(runs[r].channels, DOMAIN out, out)
         IN  /\ runs' = [runs EXCEPT
                           ![r].pc = NextNode(@), ![r].channels = st,
                           ![r].answer = IF runs[r].pc = "generate"
                                         THEN answer ELSE @]
             /\ chk' = [chk EXCEPT ![ticket_id] = st]
    /\ UNCHANGED <<runnable, cacheInit, vectorStore, store, nextKey, docs, pc,
                   inv, events, tr, prev, ninv, redisUp, embedUp, nfaults,
                   embeddingVars, chatVars, historyVars, rlsVars, ingestVars>>

\* Two requests of one chat session (one ticket, one tenant) in flight at
\* once on a fresh thread.
NextConcurrent ==
    \/ set_runnable
    \/ \E r \in Runs, m \in Questions, k \in Threads : run_load(r, m, k)
    \/ \E r \in Runs, t \in {"tA"}, k \in Threads : run_input(r, t, k)
    \/ \E r \in Runs, k \in Threads : run_node(r, k)

SpecConcurrent == Init /\ [][NextConcurrent]_vars

\* ------------------------------------------------------------------ claims
\* the number of events of one type in a stream
CountType(ev, type) == Cardinality({i \in 1..Len(ev) : ev[i].type = type})

\* the words of the token events of a stream, in order
RECURSIVE TokenText(_)
TokenText(ev) ==
    IF ev = << >> THEN << >>
    ELSE (IF Head(ev).type = "token" THEN Head(ev).content ELSE << >>)
         \o TokenText(Tail(ev))

\* a is the tail of s
IsSuffix(a, s) ==
    Len(a) <= Len(s) /\ SubSeq(s, Len(s) - Len(a) + 1, Len(s)) = a

\* the stream of the current invocation is over
Done == pc = "done"

\* the current invocation went past check_cache and its generation succeeded
MissGenerated == Done /\ Len(tr.ran) = 4 /\ tr.genOk

\* C1: every stream of stream_response, whatever happens inside it (the
\* compiled graph not being available included), has exactly one end event
\* and that event is the last one.
C1_ExactlyOneEndLast ==
    Done => /\ CountType(events, "end") = 1
            /\ Len(events) > 0
            /\ events[Len(events)].type = "end"

\* C2: when a pipeline stage raises inside the stream, the stream carries
\* exactly one error event, its content is the fixed generic message whatever
\* was raised, nothing but the end event follows it, and the end event does.
C2_OneGenericErrorThenEnd ==
    /\ \A i \in 1..Len(events) :
         events[i].type = "error" =>
           /\ events[i].content = GenericError
           /\ \A j \in (i + 1)..Len(events) : events[j].type = "end"
    /\ (Done /\ tr.exc # "None" /\ ~tr.escaped) =>
         /\ CountType(events, "error") = 1
         /\ Len(events) >= 2
         /\ events[Len(events) - 1].type = "error"
         /\ events[Len(events)].type = "end"

\* the generating LLM raised after tokens had been streamed
C2_Witness ==
    /\ Done
    /\ tr.exc = "Exception"
    /\ "generate" \in tr.faults
    /\ CountType(events, "token") > 0
    /\ CountType(events, "error") = 1

\* C3: the entry a cache lookup returns was written by an invocation of the
\* tenant the lookup is issued for, and so is the response of a cache hit;
\* every entry carries the tenant of the invocation that wrote it.
C3_CacheTenantIsolation ==
    /\ \A e \in store : e.tenant_id = e.writer
    /\ tr.lookup.writer \in {NoTenant, inv.tenant}
    /\ (pc # "idle" /\ chk[inv.thread].is_cache_hit) =>
         /\ tr.lookup.found
         /\ tr.lookup.writer = inv.tenant

\* tenant B asked the exact question tenant A has a served entry for, the
\* lookup ran, and returned nothing
C3_Witness ==
    /\ Done
    /\ inv.tenant = "tB"
    /\ tr.lookup.done
    /\ ~tr.lookup.found
    /\ \E e \in Searchable(store) :
         /\ e.writer = "tA"
         /\ e.embedding = Emb(inv.message)
         /\ Truthy(e.response)

\* C4: every chunk retrieve_documents puts in the state, and every chunk in
\* the prompt of generate_response, was ingested under the tenant of the
\* invocation.
C4_RetrievalTenantIsolation ==
    pc # "idle" =>
      \A d \in chk[inv.thread].documents \cup tr.promptDocs :
        d.tenant_id = inv.tenant

\* chunks reached the prompt while another tenant's chunk of the same text
\* is in the index
C4_Witness ==
    /\ Done
    /\ tr.promptDocs # {}
    /\ \E d \in docs, c \in tr.promptDocs :
         d.tenant_id # inv.tenant /\ d.content = c.content

\* C5: when the lookup finds an entry of the tenant at or above the
\* threshold, check_cache is the only stage that runs, no LLM call and no
\* search is made, and the stream's tokens are the cached response.
C5_HitSkipsPipeline ==
    tr.lookup.found =>
      /\ tr.ran = <<"check_cache">>
      /\ tr.llmCalls = 0
      /\ tr.searches = 0
      /\ CountType(events, "token") = 1
      /\ TokenText(events) = tr.lookup.response

\* C6: when every call to the cache store raises (the lookup and the write)
\* and nothing else fails, all four stages run, no error event is emitted
\* and the generated answer is streamed.
C6_StoreOutageStillAnswers ==
    (/\ Done
     /\ ~tr.escaped
     /\ tr.storeCalls = 2
     /\ ~tr.storeOk
     /\ tr.faults \subseteq {"store"}) =>
      /\ tr.ran = <<"check_cache", "contextualize", "retrieve", "generate">>
      /\ tr.genOk
      /\ CountType(events, "error") = 0
      /\ IsSuffix(tr.answer, TokenText(events))
      /\ events[Len(events)].type = "end"

\* the lookup and the write both raised and a non-empty answer was streamed
C6_Witness ==
    /\ Done
    /\ tr.storeCalls = 2
    /\ ~tr.storeOk
    /\ tr.faults = {"store"}
    /\ tr.writeRaised
    /\ tr.genOk
    /\ tr.answer # << >>
    /\ CountType(events, "error") = 0

\* the entries the current invocation added carry its tenant, its question
\* and its answer
NewEntriesTagged ==
    \A e \in store :
      e.key \in tr.newKeys =>
        /\ e.tenant_id = inv.tenant
        /\ e.query_text = inv.message
        /\ e.response = tr.answer

C8_RequeryHits ==
    (/\ pc \notin {"idle", "check_cache"}
     /\ prev.valid /\ prev.miss /\ prev.genOk /\ prev.indexed /\ prev.quiet
     /\ inv.tenant = prev.tenant
     /\ inv.message = prev.message
     /\ tr.lookup.done) =>
      /\ chk[inv.thread].is_cache_hit
      /\ tr.answer = prev.answer
      /\ tr.ran = <<"check_cache">>

\* the lookup of the current invocation produced a response that can be served
HitFound == tr.lookup.found /\ Truthy(tr.lookup.response)

\* C9: an invocation whose cache check was a hit never calls cache_response
\* and adds no entry; cache_response is called only with is_cache_hit false.
C9_HitNeverWrites ==
    /\ (pc # "idle" /\ (HitFound \/ chk[inv.thread].is_cache_hit)) =>
         /\ tr.cacheCalls = 0
         /\ tr.newKeys = {}
         /\ tr.overwritten = {}

\* C10: whatever exception the rephrasing LLM raises, contextualize falls
\* back to the raw question, the pipeline goes on and no error is emitted.
C10_RephraseFailureFallsBack ==
    ("rephrase" \in tr.faults /\ Last(tr.ran) = "contextualize") =>
      /\ tr.exc = "None"
      /\ pc = "retrieve"
      /\ chk[inv.thread].rephrased_question = inv.message
      /\ CountType(events, "error") = 0

\* a cache hit was served while the store holds entries, and nothing was written
C9_Witness ==
    /\ Done
    /\ chk[inv.thread].is_cache_hit
    /\ HitFound
    /\ tr.cacheCalls = 0
    /\ store # {}
    /\ CountType(events, "token") = 1

\* C11: on the miss path the text handed to the similarity search of the
\* document index is the rephrased_question the contextualize stage produced.
C11_SearchUsesRephrased ==
    tr.searches > 0 => tr.searchText = tr.rephrased

\* C12: in an invocation that completes without error, the token events
\* concatenated in emission order are the answer of the invocation (the
\* generator's output on a miss, the cached response on a hit), with no text
\* of any other LLM call.
C12_TokensAreTheAnswer ==
    (Done /\ ~tr.escaped /\ tr.exc = "None") =>
      /\ Last(chk[inv.thread].messages) = AIMessage(tr.answer)
      /\ TokenText(events) = tr.answer

\* a is the head of s
IsPrefix(a, s) == Len(a) <= Len(s) /\ SubSeq(s, 1, Len(a)) = a

\* C13: on every thread messages only grows: no step removes, reorders or
\* rewrites a committed message, and the state of a new invocation is every
\* message committed before, in order, followed by the new user message.
C13_MessagesAppendOnly ==
    [][/\ \A k \in Threads : IsPrefix(chk[k].messages, chk'[k].messages)
       /\ (pc = "idle" /\ pc' = "check_cache") =>
            chk'[inv'.thread].messages =
              Append(chk[inv'.thread].messages, HumanMessage(inv'.message))]_vars

\* a later invocation starts on a thread that holds an earlier exchange
C13_Witness ==
    /\ pc = "check_cache"
    /\ Len(chk[inv.thread].messages) >= 3
    /\ chk[inv.thread].messages[2].role = "ai"
    /\ Last(chk[inv.thread].messages) = HumanMessage(inv.message)

\* the stages of the graph in the order of its edges
Stages == <<"check_cache", "contextualize", "retrieve", "generate">>

\* C14: the stages of one invocation run one after another in the order
\* check_cache, contextualize, retrieve, generate, each at most once and
\* check_cache first; after check_cache the invocation ends when is_cache_hit
\* is true and goes to contextualize when it is false.
C14_StageOrder ==
    /\ IsPrefix(tr.ran, Stages)
    /\ pc \in {"contextualize", "retrieve", "generate"} =>
         /\ Len(tr.ran) < 4
         /\ Stages[Len(tr.ran) + 1] = pc
    /\ pc = "check_cache" => tr.ran = << >>
    /\ (pc # "idle" /\ Len(tr.ran) >= 1) =>
         IF chk[inv.thread].is_cache_hit
         THEN tr.ran = <<"check_cache">> /\ pc \in {"finally", "done"}
         ELSE Len(tr.ran) = 1 => pc = "contextualize"

\* one invocation ended at check_cache on a hit after another ran all four
C14_Witness ==
    /\ Done
    /\ chk[inv.thread].is_cache_hit
    /\ tr.ran = <<"check_cache">>
    /\ prev.valid /\ prev.miss /\ prev.genOk

\* C15: whatever a store call raises while generate_response writes the new
\* entry, the stage returns the generated assistant message and the stream
\* carries no error event.
C15_WriteFailureSwallowed ==
    tr.writeRaised =>
      /\ tr.genOk
      /\ tr.exc = "None"
      /\ pc \in {"finally", "done"}
      /\ Last(chk[inv.thread].messages) = AIMessage(tr.answer)
      /\ CountType(events, "error") = 0

\* the lookup was answered, the write raised, and the answer was delivered
C15_Witness ==
    /\ Done
    /\ redisUp
    /\ tr.lookup.done
    /\ tr.writeRaised
    /\ tr.answer # << >>
    /\ Last(chk[inv.thread].messages) = AIMessage(tr.answer)
    /\ Last(events).type = "end"

\* C16: when every embed call of an invocation raises and nothing else
\* fails, the failure is absorbed by the stages and the stream carries no
\* error event.
C16_EmbeddingOutageAbsorbed ==
    (/\ pc # "idle"
     /\ ~embedUp
     /\ ~tr.escaped
     /\ tr.faults \subseteq {"embed"}) =>
      /\ tr.exc = "None"
      /\ CountType(events, "error") = 0

\* C17: check_cache never raises; when anything fails inside it (the
\* embedding, the cache store, missing messages) it returns is_cache_hit
\* false and rephrased_question equal to the content of the last message, or
\* the empty text when there is none, appends no message and leaves
\* documents as they were.
C17_CheckCacheNeverRaises ==
    [][pc = "check_cache" =>
         /\ pc' \in {"contextualize", "finally"}
         /\ tr'.exc = "None"
         /\ tr'.ran = <<"check_cache">>
         /\ tr'.faults # {} =>
              /\ pc' = "contextualize"
              /\ ~chk'[inv.thread].is_cache_hit
              /\ chk'[inv.thread].rephrased_question =
                   (IF Len(chk[inv.thread].messages) > 0
                    THEN Last(chk[inv.thread].messages).content ELSE << >>)
              /\ chk'[inv.thread].messages = chk[inv.thread].messages
              /\ chk'[inv.thread].documents = chk[inv.thread].documents]_vars

\* check_cache ran on a state without messages and fell back to the empty text
C17_Witness ==
    /\ tr.ran = <<"check_cache">>
    /\ tr.faults = {"messages"}
    /\ pc = "contextualize"
    /\ chk[inv.thread].rephrased_question = << >>
    /\ ~chk[inv.thread].is_cache_hit

\* C18: check_cache reports a hit exactly when the nearest entry of the
\* tenant has similarity at or above the threshold, for every stored
\* response text: then the stored response is appended as the assistant
\* message; otherwise is_cache_hit is false and no message is appended.
C18_HitIffSimilar ==
    (tr.ran = <<"check_cache">> /\ tr.lookup.done) =>
      /\ chk[inv.thread].is_cache_hit <=> tr.lookup.found
      /\ tr.lookup.found =>
           Last(chk[inv.thread].messages) = AIMessage(tr.lookup.response)
      /\ ~tr.lookup.found =>
           Last(chk[inv.thread].messages) = HumanMessage(inv.message)

\* C20: a cache write never changes or replaces an entry the store already
\* holds: every entry present before generate_response is present,
\* unchanged, after it.
C20_EntriesImmutable ==
    [][pc = "generate" => store \subseteq store']_vars

\* C19: every entry a cache write leaves in the store has a time-to-live on
\* its key, whichever store calls fail.
C19_EveryEntryExpires ==
    \A e \in store : e.ttl

\* C21: however calls of get_embedding_model interleave, the model is
\* constructed successfully at most once and every call that returns gives
\* that one instance; a call whose construction raised left the singleton
\* unset and the lock released, and the lock is held only by a caller inside
\* the with block.
C21_SingletonBuiltOnce ==
    /\ built <= 1
    /\ \A r \in elog :
         /\ r.kind = "returned" => r.model = 1
         /\ r.kind = "raised" => r.model = NoModel /\ r.lock = NoCaller
    /\ lock # NoCaller => cpc[lock] \in {"second_check", "construct"}
    /\ \A c \in Callers : cpc[c] \in {"second_check", "construct"} => lock = c

\* a construction raised, a later call constructed the model, and two
\* callers have returned it
C21_Witness ==
    /\ \E r \in elog : r.kind = "raised"
    /\ \A c \in Callers : \E r \in elog : r.kind = "returned" /\ r.caller = c
    /\ built = 1

\* C22: within an invocation the query_embedding channel is empty until
\* check_cache runs, check_cache runs at most once, and afterwards the
\* channel holds nothing or the embedding of this invocation's user message
\* (the vector the lookup used); every cache entry the invocation writes
\* carries exactly that vector, never one left by an earlier invocation.
C22_EmbeddingIsThisInvocations ==
    (pc # "idle" /\ ~tr.escaped) =>
      LET st == chk[inv.thread]
      IN  /\ st.query_embedding \in {NoEmb, Emb(inv.message)}
          /\ pc = "check_cache" => st.query_embedding = NoEmb
          /\ Cardinality({i \in 1..Len(tr.ran) : tr.ran[i] = "check_cache"}) <= 1
          /\ tr.lookup.done => st.query_embedding = Emb(inv.message)
          /\ \A e \in store : e.key \in tr.newKeys =>
                /\ e.embedding = Emb(inv.message)
                /\ e.embedding = st.query_embedding

\* the second invocation on a thread asks another question than the first,
\* whose embedding was computed, and writes an entry
C22_Witness ==
    /\ pc = "done"
    /\ prev.valid /\ prev.miss /\ prev.message # inv.message
    /\ prev.tenant = inv.tenant
    /\ tr.lookup.done
    /\ \E e \in store : e.key \in tr.newKeys /\ e.embedding = Emb(inv.message)

\* the finished requests on one thread_id
OnThread(k) == {i \in 1..Len(hist) : hist[i].ticket_id = k}

\* C23: over any sequence of requests on one thread_id, the tenant_id the
\* thread's checkpoint holds after each of them is one and the same value,
\* the one the first invocation wrote, and it is the value held now.
C23_ThreadTenantNeverChanges ==
    \A k \in Threads :
      LET wrote == {hist[i].persisted : i \in OnThread(k)} \ {NoTenant}
      IN  /\ Cardinality(wrote) <= 1
          /\ wrote # {} => chk[k].tenant_id \in wrote
          /\ chk[k].tenant_id \in {NoTenant, tickets[k]}

\* two requests with different questions ran the graph on the same thread
C23_Witness ==
    /\ Len(hist) = 2
    /\ hist[1].ticket_id = hist[2].ticket_id
    /\ hist[1].content # hist[2].content
    /\ hist[1].persisted # NoTenant
    /\ hist[2].persisted = hist[1].persisted

\* text without its leading whitespace
RECURSIVE TrimLeft(_)
TrimLeft(t) ==
    IF t = << >> THEN << >>
    ELSE IF Head(t) = " " THEN TrimLeft(Tail(t)) ELSE t

\* text without its trailing whitespace
RECURSIVE TrimRight(_)
TrimRight(t) ==
    IF t = << >> THEN << >>
    ELSE IF t[Len(t)] = " " THEN TrimRight(SubSeq(t, 1, Len(t) - 1)) ELSE t

\* the rows the finished requests h[1..n] must have left: the user message,
\* then one AI message when token content was streamed
RECURSIVE RowsOf(_)
RowsOf(h) ==
    IF h = << >> THEN << >>
    ELSE LET r == Head(h)
             text == TokenText(r.events)
         IN  <<[tenant_id |-> r.tenant_id, ticket_id |-> r.ticket_id,
                sender_type |-> "user", content |-> r.content]>>
             \o (IF text = << >> THEN << >>
                 ELSE <<[tenant_id |-> r.tenant_id, ticket_id |-> r.ticket_id,
                         sender_type |-> "ai",
                         content |-> TrimRight(TrimLeft(text))]>>)
             \o RowsOf(Tail(h))

\* C25: while the agent's generator runs the user message of the request is
\* already the last committed row; after the stream ended the request has
\* left exactly one AI row, holding the stripped concatenation of the token
\* contents, when token content was streamed, and no AI row otherwise.
C25_UserFirstThenOneAIRow ==
    /\ pc # "idle" =>
          /\ req # NoReq
          /\ rows # << >>
          /\ rows[Len(rows)] = [tenant_id |-> req.tenant_id,
                                ticket_id |-> req.ticket_id,
                                sender_type |-> "user", content |-> req.content]
    /\ rows = RowsOf(hist)
              \o (IF req = NoReq THEN << >>
                  ELSE <<[tenant_id |-> req.tenant_id, ticket_id |-> req.ticket_id,
                          sender_type |-> "user", content |-> req.content]>>)

\* one finished request streamed an answer that ends in whitespace and left
\* an AI row, another streamed no token and left none
C25_Witness ==
    /\ \E i \in 1..Len(hist) :
         /\ Len(hist[i].saved) = 1
         /\ TokenText(hist[i].events) # << >>
         /\ TokenText(hist[i].events)[Len(TokenText(hist[i].events))] = " "
    /\ \E i \in 1..Len(hist) :
         /\ ~hist[i].escaped
         /\ hist[i].saved = << >>

\* C29: a finished request left an AI row exactly when its invocation
\* appended an assistant message to the thread's checkpointed messages, the
\* row holds that message's content, and a request whose stream carried an
\* error event left no AI row.
C29_RowIffAssistantMessage ==
    \A i \in 1..Len(hist) :
      LET h == hist[i]
      IN  /\ (h.saved # << >>) <=> (h.answer # None)
          /\ h.saved # << >> => h.saved[1].content = h.answer
          /\ (\E j \in 1..Len(h.events) : h.events[j].type = "error")
                => h.saved = << >>

\* C24: for every MAX_CHAT_HISTORY n >= 0 and every messages list, the
\* history handed to the rephraser is the most recent min(n, length) of the
\* messages before the latest one: at most n of them, the latest excluded.
C24_WindowIsLastN ==
    (hw.taken /\ Len(hw.messages) > 1) =>
      LET before == SubSeq(hw.messages, 1, Len(hw.messages) - 1)
          k == Min(hw.n, Len(before))
      IN  /\ Len(hw.out) <= hw.n
          /\ hw.out = SubSeq(before, Len(before) - k + 1, Len(before))

\* C26: on a connection subject to row-level security, a documents row
\* inserted while app.current_tenant was A is returned by no query run
\* while it is another tenant (or unset), and is returned by every query
\* run while it is A.
C26_RowsVisibleToOwnerOnly ==
    sess.rls =>
      \A q \in qlog : \A o \in owner :
        o.row \in q.table =>
          /\ o.under # q.current_tenant => o.row \notin q.returned
          /\ o.under = q.current_tenant => o.row \in q.returned

\* a row inserted under one tenant was queried under the other tenant and
\* under its own
C26_Witness ==
    /\ sess.rls
    /\ \E o \in owner, q1 \in qlog, q2 \in qlog :
         /\ o.row \in q1.table /\ o.row \in q2.table
         /\ q1.current_tenant \in Tenants \ {o.under}
         /\ o.row \notin q1.returned
         /\ q2.current_tenant = o.under
         /\ o.row \in q2.returned

\* the rows of one file
OfFile(D, file_id) == {d \in D : d.file_id = file_id}

C28_UninitializedCacheIsInert ==
    (pc # "idle" /\ ~tr.escaped /\ ~cacheInit) =>
      /\ ~tr.lookup.done
      /\ tr.storeCalls = 0
      /\ ~tr.cacheRet
      /\ ~tr.writeRaised
      /\ "store" \notin tr.faults
      /\ tr.newKeys = {} /\ tr.overwritten = {}
      /\ ~chk[inv.thread].is_cache_hit
      /\ CountType(events, "token") > 0 => "generate" \in {tr.ran[i] : i \in 1..Len(tr.ran)}
                                            \/ "contextualize" \in {tr.ran[i] : i \in 1..Len(tr.ran)}
      /\ (pc = "done" /\ tr.faults = {} /\ tr.exc = "None") =>
            /\ tr.ran = Stages
            /\ tr.genOk
            /\ tr.cacheCalls = 1

\* after close, an invocation asks a question whose answer is still in the
\* store for its tenant, takes the miss path and generates
C28_Witness ==
    /\ pc = "done"
    /\ ~cacheInit
    /\ \E e \in store :
         /\ e.tenant_id = inv.tenant
         /\ e.via = "index"
         /\ e.embedding = Emb(inv.message)
    /\ tr.genOk
    /\ tr.cacheCalls = 1

\* the messages one run adds: its user message, then its answer
Turn(r) == <<HumanMessage(runs[r].message), AIMessage(runs[r].answer)>>

\* C30: when two invocations on one thread_id have both finished, the
\* thread's checkpointed messages hold the user message and the answer of
\* both, as after running them one after the other in some order.
C30_NoLostUpdate ==
    (\A r \in Runs : runs[r].pc = "done") =>
      \E r1 \in Runs, r2 \in Runs :
        /\ r1 # r2
        /\ chk["k1"].messages = Turn(r1) \o Turn(r2)

====
